---- MODULE Spec2Model ----
(***************************************************************************)
(* A model of dsgit: the content-addressed object store, the tree          *)
(* snapshot/restore engine, the commit records, the reference store and    *)
(* the tree diff.                                                          *)
(*                                                                         *)
(* Strings.  A Rust String is modelled as a sequence of tokens.  A token   *)
(* is either one of the separator characters the code splits on (NUL, LF,  *)
(* SP, COLON, SLASH) or an atom: a run of characters that holds none of    *)
(* these separators ("tree", "parent", a file name, an oid).  The string   *)
(* is the concatenation of its tokens, so split, lines and starts_with are *)
(* computed on the token sequence as the code computes them on bytes.      *)
(***************************************************************************)
EXTENDS Integers, Sequences, FiniteSets, TLC

VARIABLES
    objects,    \* .dsgit/objects: oid -> stored bytes of the object file
    refs,       \* .dsgit/<ref name>: ref name -> bytes of the ref file
    wd,         \* the working directory: path -> [dir, data]
    ret         \* what the last operation was given and what it returned

vars == <<objects, refs, wd, ret>>

----------------------------------------------------------------------------
(* Separator characters and keywords.                                      *)

NUL == "^@"
LF == "\n"
SP == " "
COLON == ":"
SLASH == "/"

Blob == "blob"
Tree == "tree"
Commit == "commit"
TypeObject == {Blob, Tree, Commit}

\* The empty string.
Empty == <<>>

\* A result of a fallible call: Ok(val), or a failure (Err or panic).
Ok(v) == [ok |-> TRUE, val |-> v]
Fail == [ok |-> FALSE, val |-> <<>>]

----------------------------------------------------------------------------
(* String helpers of the Rust standard library.                            *)

\* str::split(sep): the pieces between the separators, n + 1 pieces for n
\* separators.
RECURSIVE Split(_, _)
Split(s, sep) ==
    IF \A i \in 1..Len(s) : s[i] # sep
    THEN <<s>>
    ELSE LET i == CHOOSE j \in 1..Len(s) :
                      s[j] = sep /\ \A k \in 1..(j - 1) : s[k] # sep
         IN <<SubSeq(s, 1, i - 1)>> \o Split(SubSeq(s, i + 1, Len(s)), sep)

\* str::lines(): split on LF; the line ending of the last line is optional, so
\* a trailing empty piece is no line.
Lines(s) ==
    LET p == Split(s, LF)
    IN IF p[Len(p)] = Empty THEN SubSeq(p, 1, Len(p) - 1) ELSE p

\* str::starts_with
StartsWith(s, prefix) ==
    Len(s) >= Len(prefix) /\ SubSeq(s, 1, Len(prefix)) = prefix

\* Concatenation of a sequence of strings.
RECURSIVE Concat(_)
Concat(ss) == IF ss = <<>> THEN <<>> ELSE Head(ss) \o Concat(Tail(ss))

----------------------------------------------------------------------------
(* The object store.                                                       *)

\* impl FromStr for TypeObject: Ok for the three kinds, Err otherwise.
TypeObject_from_str(s) ==
    IF s \in {<<Blob>>, <<Tree>>, <<Commit>>} THEN Ok(s[1]) ELSE Fail

\* sha1_hash followed by hex::encode: 40 hexadecimal characters that name the
\* hashed bytes.  SHA-1 is modelled as collision free: the name of the bytes
\* is their printed form, one atom.
sha1_hash(data) == ToString(data)

\* An open with append(true): the bytes go after the old ones.
WriteAppend(old, bytes) == old \o bytes

\* OpenOptions::new().read(true).write(true).create(true) and write_all: the
\* bytes are written from offset 0 over the old file, which is not truncated.
WriteOver(old, bytes) == bytes \o SubSeq(old, Len(bytes) + 1, Len(old))

FileOf(store, name) == IF name \in DOMAIN store THEN store[name] ELSE Empty

Put(store, name, bytes) ==
    [n \in DOMAIN store \cup {name} |-> IF n = name THEN bytes ELSE store[n]]

\* hash_object(data, type_obj): the oid and the store after the write.
hash_object(objs, data, type_obj) ==
    LET obj == <<type_obj, NUL>> \o data
        oid == sha1_hash(obj)
    IN [oid |-> oid,
        objs |-> Put(objs, oid, WriteOver(FileOf(objs, oid), obj))]

\* get_object(oid, expected_type).  The two anyhow!(..) expressions build an
\* error and drop it: neither the piece count nor the type is enforced.
get_object(objs, oid, expected_type) ==
    IF oid \notin DOMAIN objs THEN Fail
    ELSE LET pieces == Split(objs[oid], NUL)
         IN IF ~TypeObject_from_str(pieces[1]).ok THEN Fail
            ELSE IF Len(pieces) < 2 THEN Fail
            ELSE Ok(pieces[2])

----------------------------------------------------------------------------
(* Paths.  A path of the working directory is the sequence of its          *)
(* components, <<".", "d", "a">> for ./d/a; a component is one atom.  The  *)
(* String the code holds for it (PathBuf::to_str) joins them with SLASH.   *)

RECURSIVE PathStr(_)
PathStr(p) ==
    IF Len(p) <= 1 THEN p
    ELSE PathStr(SubSeq(p, 1, Len(p) - 1)) \o <<SLASH, p[Len(p)]>>

\* The only token of a one-token string; "" (no file has this name) otherwise.
AtomOf(s) == IF Len(s) = 1 THEN s[1] ELSE ""

\* Path::new(s): the components of the path string s.
ParsePath(s) ==
    LET pieces == Split(s, SLASH)
    IN [i \in 1..Len(pieces) |-> AtomOf(pieces[i])]

Parent(p) == SubSeq(p, 1, Len(p) - 1)

Root == <<".">>

\* The working directory is a function from paths to nodes; the root is a
\* directory and is not listed.
FileNode(data) == [dir |-> FALSE, data |-> data]
DirNode == [dir |-> TRUE, data |-> Empty]

Exists(fs, p) == p = Root \/ p \in DOMAIN fs
IsDir(fs, p) == p = Root \/ (p \in DOMAIN fs /\ fs[p].dir)
IsFile(fs, p) == p \in DOMAIN fs /\ ~fs[p].dir

IsPrefix(p, q) == Len(p) <= Len(q) /\ SubSeq(q, 1, Len(p)) = p

Children(fs, p) ==
    {q \in DOMAIN fs : Len(q) = Len(p) + 1 /\ IsPrefix(p, q)}

\* fs::remove_file / fs::remove_dir_all: the path and everything below it.
RemoveAll(fs, p) == [q \in {q \in DOMAIN fs : ~IsPrefix(p, q)} |-> fs[q]]

\* fs::create_dir_all(p): p and its missing ancestors become directories.
CreateDirAll(fs, p) ==
    LET new == {SubSeq(p, 1, n) : n \in 2..Len(p)} \ DOMAIN fs
    IN [q \in DOMAIN fs \cup new |-> IF q \in new THEN DirNode ELSE fs[q]]

\* The atoms of the model in ascending byte order, as String::cmp orders them.
ByteOrder == <<".", ".dsgit", ".git", "a", "b", "d", "e", "x", "y">>

TokRank(t) ==
    IF \E i \in 1..Len(ByteOrder) : ByteOrder[i] = t
    THEN CHOOSE i \in 1..Len(ByteOrder) : ByteOrder[i] = t
    ELSE 0

\* String::cmp: lexicographic, a proper prefix first.
RECURSIVE StrLess(_, _)
StrLess(s, t) ==
    IF t = <<>> THEN FALSE
    ELSE IF s = <<>> THEN TRUE
    ELSE IF s[1] # t[1] THEN TokRank(s[1]) < TokRank(t[1])
    ELSE StrLess(Tail(s), Tail(t))

\* fs::read_dir(p): the entries of p in the order the file system lists
\* them, which is the order of their names in ord.
RECURSIVE ListBy(_, _, _)
ListBy(fs, p, ord) ==
    IF ord = <<>> THEN <<>>
    ELSE LET q == p \o <<Head(ord)>>
         IN (IF q \in DOMAIN fs THEN <<q>> ELSE <<>>)
                \o ListBy(fs, p, Tail(ord))

----------------------------------------------------------------------------
(* The tree engine.                                                        *)

\* The reserved names of Tree::is_ignored.
Reserved == {".dsgit", ".dsgitignore", ".git", ".gitignore", ".github"}

\* str::contains on one atom: the atoms that hold another atom as a
\* substring, among the atoms of the model.
AtomContains(t, pat) ==
    \/ t = pat
    \/ <<t, pat>> \in {<<".dsgitignore", ".dsgit">>, <<".gitignore", ".git">>,
                       <<".github", ".git">>}

\* str::contains(pat) for a pattern of one atom or separator; the empty
\* pattern is contained in every string.
Contains(s, pat) ==
    \/ pat = Empty
    \/ Len(pat) = 1 /\ \E i \in 1..Len(s) : AtomContains(s[i], pat[1])
    \/ Len(pat) > 1 /\ \E i \in 1..(Len(s) - Len(pat) + 1) :
                          SubSeq(s, i, i + Len(pat) - 1) = pat

\* Tree::is_ignored(path, ignore_options)
is_ignored(path, ignore_options) ==
    \/ \E r \in Reserved : Contains(path, <<r>>)
    \/ \E i \in 1..Len(ignore_options) : Contains(path, ignore_options[i])

\* impl fmt::Display for Entry: "{obj_type} {oid} {path}\n"
Entry_to_string(e) == <<e.obj_type, SP, e.oid, SP>> \o e.path \o <<LF>>

\* impl From<&str> for Entry: panics unless the line has three pieces and the
\* first one is a kind.
Entry_from(line) ==
    LET entry == Split(line, SP)
    IN IF Len(entry) # 3 THEN Fail
       ELSE IF ~TypeObject_from_str(entry[1]).ok THEN Fail
       ELSE Ok([path |-> entry[3], oid |-> AtomOf(entry[2]),
                obj_type |-> entry[1][1]])

\* The derived Ord of Entry compares path, then oid, then obj_type; the
\* entries of one directory have different paths, so the path decides.
EntryLess(e, f) == StrLess(e.path, f.path)

\* Vec::sort, an insertion sort here.
RECURSIVE Insert(_, _)
Insert(sorted, e) ==
    IF sorted = <<>> THEN <<e>>
    ELSE IF EntryLess(e, Head(sorted)) THEN <<e>> \o sorted
    ELSE <<Head(sorted)>> \o Insert(Tail(sorted), e)

\* No sort: the entries stay in the order of the listing.
KeepOrder(es) == es

RECURSIVE SortEntries(_)
SortEntries(es) ==
    IF es = <<>> THEN <<>>
    ELSE Insert(SortEntries(SubSeq(es, 1, Len(es) - 1)), es[Len(es)])

\* Tree::write_tree(target_path, ignore_options): the oid of the tree object
\* and the store after all the writes.  ScanDir is the loop over read_dir.
RECURSIVE write_tree(_, _, _, _, _)
RECURSIVE ScanDir(_, _, _, _, _)
ScanDir(fs, objs, listing, ignore_options, ord) ==
    IF listing = <<>> THEN [entries |-> <<>>, objs |-> objs]
    ELSE
        LET path == Head(listing)
            one ==
                IF is_ignored(PathStr(path), ignore_options)
                THEN [entries |-> <<>>, objs |-> objs]
                ELSE IF fs[path].dir
                THEN LET t == write_tree(fs, objs, path, ignore_options, ord)
                     IN [entries |-> <<[path |-> PathStr(path), oid |-> t.oid,
                                        obj_type |-> Tree]>>,
                         objs |-> t.objs]
                ELSE LET b == hash_object(objs, fs[path].data, Blob)
                     IN [entries |-> <<[path |-> PathStr(path), oid |-> b.oid,
                                        obj_type |-> Blob]>>,
                         objs |-> b.objs]
            more == ScanDir(fs, one.objs, Tail(listing), ignore_options, ord)
        IN [entries |-> one.entries \o more.entries, objs |-> more.objs]

write_tree(fs, objs, target_path, ignore_options, ord) ==
    LET scan == ScanDir(fs, objs, ListBy(fs, target_path, ord),
                        ignore_options, ord)
        entries == SortEntries(scan.entries)
        tree_contents ==
            Concat([i \in 1..Len(entries) |-> Entry_to_string(entries[i])])
    IN hash_object(scan.objs, tree_contents, Tree)

\* Tree::new(target_path, ignore_options): the blob entries below the
\* directory in the order the listings give them, a subdirectory's entries
\* in its place, and the store after the blobs are written.
RECURSIVE Tree_new(_, _, _, _, _)
RECURSIVE ScanNew(_, _, _, _, _)
ScanNew(fs, objs, listing, ignore_options, ord) ==
    IF listing = <<>> THEN [entries |-> <<>>, objs |-> objs]
    ELSE
        LET path == Head(listing)
            one ==
                IF is_ignored(PathStr(path), ignore_options)
                THEN [entries |-> <<>>, objs |-> objs]
                ELSE IF fs[path].dir
                THEN Tree_new(fs, objs, path, ignore_options, ord)
                ELSE LET b == hash_object(objs, fs[path].data, Blob)
                     IN [entries |-> <<[path |-> PathStr(path), oid |-> b.oid,
                                        obj_type |-> Blob]>>,
                         objs |-> b.objs]
            more == ScanNew(fs, one.objs, Tail(listing), ignore_options, ord)
        IN [entries |-> one.entries \o more.entries, objs |-> more.objs]

Tree_new(fs, objs, target_path, ignore_options, ord) ==
    ScanNew(fs, objs, ListBy(fs, target_path, ord), ignore_options, ord)

\* The hash_object calls of one Tree::write_tree in the order the code makes
\* them: those of the loop over read_dir, then the one of the tree itself.
ParentBeforeChildren(children, parent) == <<parent>> \o children

WriteOrder(children, parent) == children \o <<parent>>

\* Tree::write_tree as the sequence of its hash_object calls, each with the
\* data and the kind it is given, and the oid of the tree.
RECURSIVE TreeWrites(_, _, _, _)
RECURSIVE ScanWrites(_, _, _, _)
ScanWrites(fs, listing, ignore_options, ord) ==
    IF listing = <<>> THEN [entries |-> <<>>, writes |-> <<>>]
    ELSE
        LET path == Head(listing)
            one ==
                IF is_ignored(PathStr(path), ignore_options)
                THEN [entries |-> <<>>, writes |-> <<>>]
                ELSE IF fs[path].dir
                THEN LET t == TreeWrites(fs, path, ignore_options, ord)
                     IN [entries |-> <<[path |-> PathStr(path), oid |-> t.oid,
                                        obj_type |-> Tree]>>,
                         writes |-> t.writes]
                ELSE [entries |-> <<[path |-> PathStr(path),
                                     oid |-> hash_object(<<>>, fs[path].data,
                                                         Blob).oid,
                                     obj_type |-> Blob]>>,
                      writes |-> <<[data |-> fs[path].data, kind |-> Blob]>>]
            more == ScanWrites(fs, Tail(listing), ignore_options, ord)
        IN [entries |-> one.entries \o more.entries,
            writes |-> one.writes \o more.writes]

TreeWrites(fs, target_path, ignore_options, ord) ==
    LET scan == ScanWrites(fs, ListBy(fs, target_path, ord),
                           ignore_options, ord)
        entries == SortEntries(scan.entries)
        tree_contents ==
            Concat([i \in 1..Len(entries) |-> Entry_to_string(entries[i])])
    IN [oid |-> hash_object(<<>>, tree_contents, Tree).oid,
        writes |-> WriteOrder(scan.writes,
                              [data |-> tree_contents, kind |-> Tree])]

\* Only the blob lines of a tree, its nested trees left out.
BlobLinesOnly(objs, tree) ==
    LET lines == Lines(tree)
        keep == {i \in 1..Len(lines) : Entry_from(lines[i]).ok
                                         /\ Entry_from(lines[i]).val.obj_type = Blob}
        nth(k) == CHOOSE i \in keep : Cardinality({j \in keep : j < i}) = k - 1
    IN Ok([k \in 1..Cardinality(keep) |-> Entry_from(lines[nth(k)]).val])

\* Tree::get_tree(tree): the blob entries below a tree, nested trees
\* expanded in place.
RECURSIVE get_tree(_, _)
RECURSIVE ExpandLines(_, _)
ExpandLines(objs, lines) ==
    IF lines = <<>> THEN Ok(<<>>)
    ELSE
        LET entry == Entry_from(Head(lines))
            one ==
                IF ~entry.ok THEN Fail
                ELSE IF entry.val.obj_type = Blob THEN Ok(<<entry.val>>)
                ELSE IF entry.val.obj_type = Tree
                THEN LET tmp_tree == get_object(objs, entry.val.oid, Tree)
                     IN IF tmp_tree.ok THEN get_tree(objs, tmp_tree.val)
                        ELSE Fail
                ELSE Fail
        IN IF ~one.ok THEN Fail
           ELSE LET more == ExpandLines(objs, Tail(lines))
                IN IF more.ok THEN Ok(one.val \o more.val) ELSE Fail

get_tree(objs, tree) == ExpandLines(objs, Lines(tree))

\* Clears only the files of ".", not its directories.
ClearFilesOnly(fs, ignore_options) ==
    LET gone == {p \in Children(fs, Root) :
                     ~is_ignored(PathStr(p), ignore_options) /\ ~fs[p].dir}
    IN [q \in DOMAIN fs \ gone |-> fs[q]]

\* Tree::clear_current_directory: every entry of "." that is not ignored is
\* removed, a directory with all it holds.
clear_current_directory(fs, ignore_options) ==
    LET gone == {p \in Children(fs, Root) :
                     ~is_ignored(PathStr(p), ignore_options)}
    IN [q \in {q \in DOMAIN fs : \A p \in gone : ~IsPrefix(p, q)} |-> fs[q]]

\* The loop of Tree::read_tree over the entries of the flattened tree: the
\* directory after the writes, and whether every step succeeded.
RECURSIVE RestoreEntries(_, _, _)
RestoreEntries(fs, objs, entries) ==
    IF entries = <<>> THEN [ok |-> TRUE, fs |-> fs]
    ELSE
        LET entry == Head(entries)
            path == ParsePath(entry.path)
            prefix == Parent(path)
            blocked == \E n \in 2..Len(prefix) : IsFile(fs, SubSeq(path, 1, n))
            fs1 == IF Exists(fs, prefix) THEN fs ELSE CreateDirAll(fs, prefix)
            old == IF IsFile(fs1, path) THEN fs1[path].data ELSE Empty
            blob == get_object(objs, entry.oid, Blob)
            opened == Put(fs1, path, FileNode(old))
        IN IF blocked \/ IsDir(fs1, path) THEN [ok |-> FALSE, fs |-> fs]
           ELSE IF ~blob.ok THEN [ok |-> FALSE, fs |-> opened]
           ELSE RestoreEntries(
                    Put(fs1, path, FileNode(WriteOver(old, blob.val))),
                    objs, Tail(entries))

\* Tree::read_tree(oid, ignore_options)
read_tree(fs, objs, oid, ignore_options) ==
    LET cleared == clear_current_directory(fs, ignore_options)
        tree_contents == get_object(objs, oid, Tree)
        tree == get_tree(objs, tree_contents.val)
    IN IF ~tree_contents.ok THEN [ok |-> FALSE, fs |-> cleared]
       ELSE IF ~tree.ok THEN [ok |-> FALSE, fs |-> cleared]
       ELSE RestoreEntries(cleared, objs, tree.val)

----------------------------------------------------------------------------
(* The reference store.  A ref name and the bytes of a ref file are        *)
(* strings; refs maps the names of the files under .dsgit that hold a ref  *)
(* to their bytes.                                                         *)

HEAD == <<"HEAD">>
RefsDir == <<"refs", SLASH>>
RefsHeads == <<"refs", SLASH, "heads", SLASH>>
RefsTags == <<"refs", SLASH, "tags", SLASH>>
RefMark == <<"ref", COLON>>

\* RefValue::new(ref_oid, symbolic, value)
RefValue(ref_oid, symbolic, value) ==
    [ref_oid |-> ref_oid, symbolic |-> symbolic, value |-> value]

\* Option<RefValue>, inside the Result that carries it.
Some(rv) == [ok |-> TRUE, some |-> TRUE, rv |-> rv]
None == [ok |-> TRUE, some |-> FALSE, rv |-> RefValue(Empty, FALSE, Empty)]
Crash == [ok |-> FALSE, some |-> FALSE, rv |-> RefValue(Empty, FALSE, Empty)]

\* RefValue::get_ref_internal(refs, deref).  The recursion has no guard in
\* the code: a chain longer than the number of refs is a cycle, on which
\* the call never returns (fuel counts the refs still to follow).
RECURSIVE FollowRef(_, _, _, _)
FollowRef(rs, name, deref, fuel) ==
    IF name \notin DOMAIN rs THEN None
    ELSE LET value == rs[name]
             symbolic == value # Empty /\ StartsWith(value, RefMark)
             target == Split(value, COLON)[2]
         IN IF symbolic /\ deref
            THEN IF fuel = 0 THEN Crash
                 ELSE FollowRef(rs, target, TRUE, fuel - 1)
            ELSE Some(RefValue(name, symbolic,
                               IF symbolic THEN target ELSE value))

\* The lookup that follows a symbolic ref whatever deref says.
AlwaysFollow(rs, name, deref) ==
    FollowRef(rs, name, TRUE, Cardinality(DOMAIN rs))

get_ref_internal(rs, name, deref) ==
    FollowRef(rs, name, deref, Cardinality(DOMAIN rs))

\* A lookup that takes a ref file that is not there for an error.
AbsentIsError(rs, name, deref) ==
    LET found == get_ref_internal(rs, name, deref)
    IN IF found.some THEN found ELSE Crash

\* RefValue::get_ref(refs, deref)
get_ref(rs, name, deref) == get_ref_internal(rs, name, deref)

\* RefValue::update_ref(refs, ref_value, deref): the ref files after the
\* write.  The file written is the ref the chain ends at, and the name given
\* when get_ref_internal finds nothing.
update_ref(rs, name, ref_value, deref) ==
    LET found == get_ref_internal(rs, name, deref)
        target == IF found.some THEN found.rv.ref_oid ELSE name
        value == IF ref_value.symbolic THEN RefMark \o ref_value.value
                 ELSE ref_value.value
    IN IF ~found.ok \/ ref_value.value = Empty
       THEN [ok |-> FALSE, val |-> Empty, rs |-> rs]
       ELSE [ok |-> TRUE, val |-> value, rs |-> Put(rs, target, value)]

\* The ref file that update_ref opens: the ref the lookup ends at, the name
\* given when it finds nothing.
ref_file(rs, name, deref) ==
    LET found == get_ref_internal(rs, name, deref)
    IN IF found.some THEN found.rv.ref_oid ELSE name

\* create_tag(tag, oid)
create_tag(rs, tag, oid) ==
    update_ref(rs, RefsTags \o tag, RefValue(oid, FALSE, oid), TRUE)

\* A branch written where the tags are.
BranchUnderTags(rs, name, oid) ==
    update_ref(rs, RefsTags \o name, RefValue(oid, FALSE, oid), TRUE)

\* create_branch(name, oid)
create_branch(rs, name, oid) ==
    update_ref(rs, RefsHeads \o name, RefValue(oid, FALSE, oid), TRUE)

\* Whether name is the name of a tag.
is_tag(rs, name) == get_ref(rs, RefsTags \o name, TRUE).some

\* is_branch(name)
is_branch(rs, name) == get_ref(rs, RefsHeads \o name, TRUE).some

\* reset(oid): HEAD is written as a direct ref, not through the branch.
reset(rs, oid) == update_ref(rs, HEAD, RefValue(oid, FALSE, oid), FALSE)

\* data::get_ref(path) as get_oid calls it: the oid the ref resolves to.
data_get_ref(rs, path) ==
    LET found == get_ref(rs, path, TRUE)
    IN IF ~found.ok THEN [ok |-> FALSE, some |-> FALSE, oid |-> Empty]
       ELSE [ok |-> TRUE, some |-> found.some, oid |-> found.rv.value]

\* The atoms of ref names and the names that are not oids; an atom that is
\* none of the atoms of the model is the output of sha1_hash.
HexAtoms == {"00000000000000000000000000000000000000aa",
             "00000000000000000000000000000000000000bb",
             "0000000000000000000000000000000000000aa"}
Atoms ==
    {NUL, LF, SP, COLON, SLASH, Blob, Tree, Commit, "parent", "ref", "refs",
     "heads", "tags", "HEAD", "main", "b", "m", "x", "y", "a", "d", "e", ".",
     ".dsgit", ".git", "", "zz00000000000000000000000000000000000000"}
        \cup HexAtoms

\* The length of an atom in bytes: 40 for an oid (hex::encode of 20 bytes).
OidLen == 40
TokLen(t) == IF t \in Atoms THEN Len(t) ELSE OidLen
RECURSIVE StrLen(_)
StrLen(s) == IF s = <<>> THEN 0 ELSE TokLen(Head(s)) + StrLen(Tail(s))

\* char::is_ascii_hexdigit for every character of the string.
IsHex(s) == \A i \in 1..Len(s) : s[i] \in HexAtoms \/ s[i] \notin Atoms

\* get_oid(name): the loop over refs_walk, then the check for a hash value.
RECURSIVE WalkRefs(_, _)
WalkRefs(rs, refs_walk) ==
    IF refs_walk = <<>> THEN [ok |-> TRUE, some |-> FALSE, oid |-> Empty]
    ELSE LET got == data_get_ref(rs, Head(refs_walk))
         IN IF ~got.ok \/ got.some THEN got
            ELSE WalkRefs(rs, Tail(refs_walk))

\* The candidates with the branch tried before the tag.
HeadsBeforeTags(name) ==
    <<name, RefsDir \o name, RefsHeads \o name, RefsTags \o name>>

refs_walk_of(name) ==
    <<name, RefsDir \o name, RefsTags \o name, RefsHeads \o name>>

get_oid(rs, name) ==
    LET walked == WalkRefs(rs, refs_walk_of(name))
    IN IF ~walked.ok THEN Fail
       ELSE IF walked.some THEN Ok(walked.oid)
       ELSE IF StrLen(name) = OidLen /\ IsHex(name) THEN Ok(name)
       ELSE Fail

----------------------------------------------------------------------------
(* Commits.                                                                *)

\* Commit::get_commit(oid): the tree, the parent and the message; a missing
\* line is an index out of bounds, a panic.
get_commit(objs, oid) ==
    LET commit_obj == get_object(objs, oid, Commit)
        lines == Lines(commit_obj.val)
        line0 == Split(lines[1], SP)
        line1 == Split(lines[2], SP)
        has_parent == line1[1] = <<"parent">>
        bad == [ok |-> FALSE, tree |-> "", has_parent |-> FALSE,
                parent |-> Empty, message |-> Empty]
    IN IF ~commit_obj.ok THEN bad
       ELSE IF Len(lines) < 1 THEN bad
       ELSE IF line0[1] # <<"tree">> \/ Len(line0) < 2 THEN bad
       ELSE IF Len(lines) < 2 THEN bad
       ELSE IF has_parent /\ Len(line1) < 2 THEN bad
       ELSE [ok |-> TRUE, tree |-> AtomOf(line0[2]),
             has_parent |-> has_parent,
             parent |-> IF has_parent THEN line1[2] ELSE Empty,
             message |-> lines[Len(lines)]]

\* HEAD read without following a symbolic ref.
HeadNotFollowed(rs) == get_ref(rs, HEAD, FALSE)

\* The HEAD that Commit::commit takes the parent from: dereferenced.
HeadOfCommit(rs) == get_ref(rs, HEAD, TRUE)

\* The text of the commit object that Commit::commit builds.
commit_text(tree_oid, head, message) ==
    <<"tree", SP, tree_oid, LF>>
        \o (IF head.some THEN <<"parent", SP>> \o head.rv.value \o <<LF>>
            ELSE <<>>)
        \o <<LF>> \o message \o <<LF>>

\* The HEAD that switch writes: symbolic for the name of a branch, the oid
\* for any other name.
head_ref(rs, name, oid) ==
    IF is_branch(rs, name)
    THEN RefValue(oid, TRUE, RefsHeads \o name)
    ELSE RefValue(oid, FALSE, oid)

----------------------------------------------------------------------------
(* History traversal.                                                      *)

\* RefValue::get_refs: the names of all refs.
get_refs(rs) == DOMAIN rs

\* The loop of log: the oids of the commits printed, and whether the loop
\* ended at a commit with no parent; get_commit(..).unwrap() is a panic.
\* No chain is longer than the number of stored objects.
RECURSIVE LogLoop(_, _, _, _)
LogLoop(objs, oid, emitted, fuel) ==
    LET c == get_commit(objs, oid)
    IN IF ~c.ok \/ fuel = 0 THEN [ok |-> FALSE, val |-> emitted]
       ELSE IF c.has_parent
       THEN LogLoop(objs, AtomOf(c.parent), Append(emitted, oid), fuel - 1)
       ELSE [ok |-> TRUE, val |-> Append(emitted, oid)]

\* log(Some(tag_or_oid)): the value of every ref is read first, then the
\* name is resolved and the loop runs.
log(objs, rs, tag_or_oid) ==
    LET oid == get_oid(rs, tag_or_oid)
    IN IF \E r \in get_refs(rs) : ~get_ref(rs, r, TRUE).some THEN Fail
       ELSE IF ~oid.ok THEN Fail
       ELSE LogLoop(objs, AtomOf(oid.val), <<>>, Cardinality(DOMAIN objs))

----------------------------------------------------------------------------
(* The diff engine.  A Tree is the sequence of its entries.                *)

\* convert_dict(tree): the oid at each path, the last entry of a path wins.
RECURSIVE convert_dict(_)
convert_dict(tree) ==
    IF tree = <<>> THEN <<>>
    ELSE LET entry == tree[Len(tree)]
             before == convert_dict(SubSeq(tree, 1, Len(tree) - 1))
         IN [q \in DOMAIN before \cup {entry.path} |->
                 IF q = entry.path THEN entry.oid ELSE before[q]]

\* The paths of the tree diffed from, alone.
from_paths(from_tree, to_tree) == DOMAIN from_tree

\* The unique paths of both trees.
uniq_paths(from_tree, to_tree) == DOMAIN from_tree \cup DOMAIN to_tree

\* Option<&str>
SomeOid(oid) == [some |-> TRUE, oid |-> oid]
NoOid == [some |-> FALSE, oid |-> ""]

\* display_diff_file(old_oid, new_oid): whether both contents are read; the
\* text it prints is not part of the model.
display_diff_file(objs, old_oid, new_oid) ==
    /\ old_oid.some => get_object(objs, old_oid.oid, Blob).ok
    /\ new_oid.some => get_object(objs, new_oid.oid, Blob).ok

NoDiff == [ok |-> TRUE, changed |-> {}, removed |-> {}, created |-> {},
           diff_entries |-> <<>>]

\* The loop of diff_trees over the unique paths, in the order the HashSet
\* gives them: the paths printed as Changed, Removed and Created, and the
\* entries pushed.  An error of display_diff_file ends the loop after the
\* line is printed.
RECURSIVE DiffLoop(_, _, _, _, _)
DiffLoop(objs, from_tree, to_tree, paths, out) ==
    IF paths = <<>> THEN out
    ELSE
        LET path == Head(paths)
            in_from == path \in DOMAIN from_tree
            in_to == path \in DOMAIN to_tree
            from_oid == IF in_from THEN SomeOid(from_tree[path]) ELSE NoOid
            to_oid == IF in_to THEN SomeOid(to_tree[path]) ELSE NoOid
            same == in_from /\ in_to /\ from_tree[path] = to_tree[path]
            printed ==
                [out EXCEPT
                    !.changed = IF in_from /\ in_to THEN @ \cup {path} ELSE @,
                    !.removed = IF in_from /\ ~in_to THEN @ \cup {path} ELSE @,
                    !.created = IF ~in_from /\ in_to THEN @ \cup {path} ELSE @]
        IN IF same \/ (~in_from /\ ~in_to)
           THEN DiffLoop(objs, from_tree, to_tree, Tail(paths), out)
           ELSE IF ~display_diff_file(objs, from_oid, to_oid)
           THEN [printed EXCEPT !.ok = FALSE]
           ELSE DiffLoop(objs, from_tree, to_tree, Tail(paths),
                         [printed EXCEPT
                             !.diff_entries = Append(@, path)])

\* diff_trees(from, to), with the order of the HashSet as order.
diff_trees(objs, from, to, order) ==
    DiffLoop(objs, convert_dict(from), convert_dict(to), order, NoDiff)

----------------------------------------------------------------------------
(* Bounds of the object-store model.                                       *)

MaxLen == 2
MaxObjects == 2

ContentTokens == {"x", NUL}

\* Every content of at most MaxLen tokens.
Contents == UNION {[1..n -> ContentTokens] : n \in 0..MaxLen}

\* ret: the operation (op), its inputs (kind, data, ign, target), its result
\* (ok, val), whether it repeats the call before it (again), and the last
\* snapshot taken by write_tree: the directory it saw (snap), its target and
\* ignore list, its oid, and the number of snapshots so far (nsnap).  For an
\* operation followed step by step: where the process is (pc), the ref file
\* it writes (reffile), the refs and the objects when it began (oldrefs,
\* oldobjs) and the refs it leaves when it completes (newrefs).
NoRet == [op |-> "none", kind |-> "", data |-> Empty, ok |-> TRUE,
          val |-> Empty, again |-> FALSE, ign |-> <<>>, target |-> Root,
          snap |-> <<>>, snapign |-> <<>>, snaptarget |-> Root,
          snapoid |-> "", nsnap |-> 0,
          pc |-> "idle", reffile |-> Empty, oldrefs |-> <<>>,
          newrefs |-> <<>>, oldobjs |-> <<>>]

\* The fields an operation carries over from the operation before it.
Carry(r) ==
    [NoRet EXCEPT !.snap = r.snap, !.snapign = r.snapign,
                  !.snaptarget = r.snaptarget, !.snapoid = r.snapoid,
                  !.nsnap = r.nsnap]

----------------------------------------------------------------------------
(* The object store on its own: hash_object and get_object on any content. *)

InitStore ==
    /\ objects = <<>>
    /\ refs = <<>>
    /\ wd = <<>>
    /\ ret = NoRet

HashObject(data, kind) ==
    LET r == hash_object(objects, data, kind)
    IN /\ Cardinality(DOMAIN r.objs) <= MaxObjects
       /\ objects' = r.objs
       /\ ret' = [Carry(ret) EXCEPT
                      !.op = "hash_object", !.kind = kind, !.data = data,
                      !.val = <<r.oid>>,
                      !.again = /\ ret.op = "hash_object"
                                /\ ret.kind = kind
                                /\ ret.data = data]
       /\ UNCHANGED <<refs, wd>>

\* The name of the empty byte string: no object has it, every stored object
\* starts with its kind and a NUL.
NoSuchOid == sha1_hash(Empty)

GetObject(oid, kind) ==
    LET r == get_object(objects, oid, kind)
    IN /\ ret' = [Carry(ret) EXCEPT
                      !.op = "get_object", !.kind = kind, !.data = <<oid>>,
                      !.ok = r.ok, !.val = r.val]
       /\ UNCHANGED <<objects, refs, wd>>

NextStore ==
    \/ \E data \in Contents, kind \in TypeObject : HashObject(data, kind)
    \/ \E oid \in DOMAIN objects \cup {NoSuchOid}, kind \in TypeObject :
           GetObject(oid, kind)

SpecStore == InitStore /\ [][NextStore]_vars

----------------------------------------------------------------------------
(* The tree engine on its own: a working directory that the user edits,    *)
(* Tree::write_tree and Tree::read_tree.                                   *)

MaxSnapshots == 1

FilePaths == {<<".", "a">>, <<".", "d", "a">>, <<".", "e", "a">>}
DirPaths == {<<".", "d">>, <<".", "e">>}
FileContents == {<<"x">>, <<"x", NUL, "y">>}

\* The contents a user writes to a file of the model.
ContentsAt(p) == IF p = <<".", "a">> THEN FileContents ELSE {<<"x">>}
IgnoreLists == {<<>>, <<<<"e">>>>}

\* Every order in which read_dir can list the names of the model.
ListedNames == {"a", "d", "e"}
ListOrders ==
    {o \in [1..Cardinality(ListedNames) -> ListedNames] :
         \A i, j \in DOMAIN o : i # j => o[i] # o[j]}

InitTree ==
    /\ objects = <<>>
    /\ refs = <<>>
    /\ wd = <<>>
    /\ ret = NoRet

\* The user writes a file (std::fs::write: created or truncated).
EditWrite(p, c) ==
    /\ IsDir(wd, Parent(p))
    /\ ~IsDir(wd, p)
    /\ wd' = Put(wd, p, FileNode(c))
    /\ ret' = [Carry(ret) EXCEPT !.op = "edit"]
    /\ UNCHANGED <<objects, refs>>

\* The user makes a directory.
EditMkdir(p) ==
    /\ IsDir(wd, Parent(p))
    /\ ~Exists(wd, p)
    /\ wd' = Put(wd, p, DirNode)
    /\ ret' = [Carry(ret) EXCEPT !.op = "edit"]
    /\ UNCHANGED <<objects, refs>>

\* The user removes a file, or a directory with all it holds.
EditRemove(p) ==
    /\ p \in DOMAIN wd
    /\ wd' = RemoveAll(wd, p)
    /\ ret' = [Carry(ret) EXCEPT !.op = "edit"]
    /\ UNCHANGED <<objects, refs>>

WriteTree(target, ign, ord) ==
    LET r == write_tree(wd, objects, target, ign, ord)
    IN /\ ret.nsnap < MaxSnapshots
       /\ IsDir(wd, target)
       /\ objects' = r.objs
       /\ ret' = [NoRet EXCEPT
                      !.op = "write_tree", !.ign = ign, !.target = target,
                      !.val = <<r.oid>>, !.snap = wd, !.snapign = ign,
                      !.snaptarget = target, !.snapoid = r.oid,
                      !.nsnap = ret.nsnap + 1]
       /\ UNCHANGED <<refs, wd>>

\* Tree::read_tree of the last snapshot.
ReadTree(ign) ==
    LET r == read_tree(wd, objects, ret.snapoid, ign)
    IN /\ ret.nsnap > 0
       /\ wd' = r.fs
       /\ ret' = [Carry(ret) EXCEPT
                      !.op = "read_tree", !.ign = ign,
                      !.data = <<ret.snapoid>>, !.ok = r.ok]
       /\ UNCHANGED <<objects, refs>>

NextTree ==
    \/ \E p \in FilePaths : \E c \in ContentsAt(p) : EditWrite(p, c)
    \/ \E p \in DirPaths : EditMkdir(p)
    \/ \E p \in FilePaths \cup DirPaths : EditRemove(p)
    \/ \E target \in {Root} \cup DirPaths, ign \in IgnoreLists,
          ord \in ListOrders : WriteTree(target, ign, ord)
    \/ \E ign \in IgnoreLists : ReadTree(ign)

SpecTree == InitTree /\ [][NextTree]_vars

----------------------------------------------------------------------------
(* The tree engine on a directory that holds a file with an ignored name   *)
(* (e) inside a directory that is not ignored (d).                         *)

IgnoredBelow == <<".", "d", "e">>
IgnoreFilePaths == {<<".", "a">>, <<".", "d", "a">>, IgnoredBelow}
IgnoreDirPaths == {<<".", "d">>}

NextIgnore ==
    \/ \E p \in IgnoreFilePaths : EditWrite(p, <<"x">>)
    \/ \E p \in IgnoreDirPaths : EditMkdir(p)
    \/ \E p \in IgnoreFilePaths \cup IgnoreDirPaths : EditRemove(p)
    \/ \E ign \in IgnoreLists, ord \in ListOrders : WriteTree(Root, ign, ord)
    \/ \E ign \in IgnoreLists : ReadTree(ign)

SpecIgnore == InitTree /\ [][NextIgnore]_vars

----------------------------------------------------------------------------
(* The repository: a working directory that the user edits, and the        *)
(* commands commit, switch, reset, branch and tag, from init on.           *)

MaxCommits == 2

\* An oid of no stored object, a hex string one character short of an oid,
\* and a string of the length of an oid that is not hex.
MissingOid == "00000000000000000000000000000000000000aa"
ShortHex == "0000000000000000000000000000000000000aa"
NotHex == "zz00000000000000000000000000000000000000"

RepoFiles == {<<".", "a">>}
BranchNames == {<<"b">>}
TagNames == {<<"b">>}
Messages == {<<"m">>}

\* read_ignore_file(): no working directory of the model holds .dsgitignore.
read_ignore_file(fs) == <<>>

\* The oids of the commits in the store.
CommitOids(objs) == {o \in DOMAIN objs : objs[o][1] = Commit}

\* The oids a user passes to a command: the commits of the store.
OidArgs == {<<o>> : o \in CommitOids(objects)}

\* The names a user passes to a command.
NameArgs == BranchNames \cup {<<"main">>, <<MissingOid>>} \cup OidArgs

\* init(): the object directory, and HEAD as a symbolic ref to the branch
\* main, which has no ref file yet.
init ==
    [objs |-> <<>>,
     rs |-> update_ref(<<>>, HEAD,
                       RefValue(Empty, TRUE, RefsHeads \o <<"main">>), TRUE).rs]

Init ==
    /\ objects = init.objs
    /\ refs = init.rs
    /\ wd = <<>>
    /\ ret = NoRet

\* Commit::commit(message, ignore_options): the snapshot, the commit object,
\* then HEAD.  An error of get_ref leaves the tree objects and nothing else.
CmdCommit(message, ord) ==
    \E t \in {write_tree(wd, objects, Root, read_ignore_file(wd), ord)},
       head \in {HeadOfCommit(refs)} :
      \E c \in {hash_object(t.objs, commit_text(t.oid, head, message), Commit)} :
        \E u \in {update_ref(refs, HEAD,
                             RefValue(<<c.oid>>, FALSE, <<c.oid>>), TRUE)} :
          /\ Cardinality(CommitOids(c.objs)) <= MaxCommits
          /\ objects' = IF head.ok THEN c.objs ELSE t.objs
          /\ refs' = IF head.ok THEN u.rs ELSE refs
          /\ ret' = [NoRet EXCEPT !.op = "commit", !.data = message,
                                  !.ok = head.ok /\ u.ok,
                                  !.val = IF head.ok THEN u.val ELSE Empty]
          /\ UNCHANGED wd

\* switch(name, ignore_options): each unwrap is a panic that leaves what was
\* done before it.
CmdSwitch(name) ==
    \E oid \in {get_oid(refs, name)} :
      \E c \in {get_commit(objects, AtomOf(oid.val))} :
        \E restored \in {IF oid.ok /\ c.ok
                         THEN read_tree(wd, objects, c.tree, read_ignore_file(wd))
                         ELSE [ok |-> FALSE, fs |-> wd]},
           u \in {update_ref(refs, HEAD, head_ref(refs, name, oid.val), FALSE)} :
          /\ wd' = restored.fs
          /\ refs' = IF restored.ok THEN u.rs ELSE refs
          /\ ret' = [NoRet EXCEPT !.op = "switch", !.data = name,
                                  !.ok = restored.ok /\ u.ok]
          /\ UNCHANGED objects

CmdReset(oid) ==
    LET r == reset(refs, oid)
    IN /\ refs' = r.rs
       /\ ret' = [NoRet EXCEPT !.op = "reset", !.data = oid, !.ok = r.ok]
       /\ UNCHANGED <<objects, wd>>

CmdBranch(name, oid) ==
    LET r == create_branch(refs, name, oid)
    IN /\ refs' = r.rs
       /\ ret' = [NoRet EXCEPT !.op = "branch", !.data = name, !.ok = r.ok,
                               !.val = oid]
       /\ UNCHANGED <<objects, wd>>

\* tag in main.rs: the name is resolved by get_oid, then create_tag.
CmdTag(tag, tag_or_oid) ==
    LET oid == get_oid(refs, tag_or_oid)
        r == create_tag(refs, tag, oid.val)
    IN /\ refs' = IF oid.ok THEN r.rs ELSE refs
       /\ ret' = [NoRet EXCEPT !.op = "tag", !.data = tag,
                               !.ok = oid.ok /\ r.ok, !.val = oid.val]
       /\ UNCHANGED <<objects, wd>>

Next ==
    \/ \E p \in RepoFiles : \E c \in ContentsAt(p) : EditWrite(p, c)
    \/ \E p \in RepoFiles : EditRemove(p)
    \/ \E message \in Messages, ord \in ListOrders : CmdCommit(message, ord)
    \/ \E name \in NameArgs : CmdSwitch(name)
    \/ \E oid \in OidArgs : CmdReset(oid)
    \/ \E name \in BranchNames, oid \in OidArgs : CmdBranch(name, oid)
    \/ \E tag \in TagNames, name \in OidArgs : CmdTag(tag, name)

Spec == Init /\ [][Next]_vars

----------------------------------------------------------------------------
(* The repository with reset, branch and tag given any oid, and log.       *)

\* The oids a user passes to reset, branch and tag: the commits of the
\* store, and an oid of no stored object.
AnyOidArgs == OidArgs \cup {<<MissingOid>>}

CmdLog(name) ==
    \E r \in {log(objects, refs, name)} :
       /\ ret' = [NoRet EXCEPT !.op = "log", !.data = name, !.ok = r.ok,
                               !.val = r.val]
       /\ UNCHANGED <<objects, refs, wd>>

NextAnyOid ==
    \/ \E p \in RepoFiles : \E c \in ContentsAt(p) : EditWrite(p, c)
    \/ \E p \in RepoFiles : EditRemove(p)
    \/ \E message \in Messages, ord \in ListOrders : CmdCommit(message, ord)
    \/ \E name \in NameArgs : CmdSwitch(name)
    \/ \E oid \in AnyOidArgs : CmdReset(oid)
    \/ \E name \in BranchNames, oid \in AnyOidArgs : CmdBranch(name, oid)
    \/ \E tag \in TagNames, name \in AnyOidArgs : CmdTag(tag, name)
    \/ \E name \in OidArgs \cup {HEAD} : CmdLog(name)

SpecAnyOid == Init /\ [][NextAnyOid]_vars

----------------------------------------------------------------------------
(* Commits with any message the command line can give: empty, of several   *)
(* lines, starting with the word parent.                                   *)

CommitMessages ==
    {Empty, <<"m">>, <<"m", LF, "n">>, <<"parent", SP, "m">>}

NextCommit ==
    \/ \E p \in RepoFiles : \E c \in ContentsAt(p) : EditWrite(p, c)
    \/ \E p \in RepoFiles : EditRemove(p)
    \/ \E message \in CommitMessages, ord \in ListOrders :
           CmdCommit(message, ord)

SpecCommit == Init /\ [][NextCommit]_vars

----------------------------------------------------------------------------
(* The operations step by step.  The process can stop after any step: each *)
(* write to the file system is a step of its own.  update_ref opens the    *)
(* ref file with truncate(true), which empties it, and fills it with       *)
(* write_all afterwards.                                                   *)

\* What an operation that begins now records: the refs and objects it
\* found, the ref file it will write and the refs it will leave.
Begin(op, data, name, deref, u) ==
    [NoRet EXCEPT !.op = op, !.data = data, !.oldrefs = refs,
                  !.oldobjs = objects, !.newrefs = u.rs,
                  !.reffile = ref_file(refs, name, deref)]

\* Commit::commit, the call of write_tree: the blobs and trees are written.
StepCommitTree(message, ord) ==
    \E t \in {write_tree(wd, objects, Root, read_ignore_file(wd), ord)},
       head \in {HeadOfCommit(refs)} :
      \E c \in {hash_object(t.objs, commit_text(t.oid, head, message), Commit)} :
        \E u \in {update_ref(refs, HEAD,
                             RefValue(<<c.oid>>, FALSE, <<c.oid>>), TRUE)} :
          /\ ret.pc = "idle"
          /\ head.ok /\ u.ok
          /\ Cardinality(CommitOids(c.objs)) <= MaxCommits
          /\ objects' = t.objs
          /\ ret' = [Begin("commit", message, HEAD, TRUE, u) EXCEPT
                         !.pc = "tree_written", !.val = <<t.oid>>]
          /\ UNCHANGED <<refs, wd>>

\* Commit::commit, the call of hash_object: the commit object is written.
StepCommitObject ==
    /\ ret.pc = "tree_written"
    /\ objects' = hash_object(objects,
                              commit_text(ret.val[1], HeadOfCommit(refs),
                                          ret.data), Commit).objs
    /\ ret' = [ret EXCEPT !.pc = "object_written"]
    /\ UNCHANGED <<refs, wd>>

\* switch, the call of read_tree: the working directory is replaced.
StepSwitchRestore(name) ==
    \E oid \in {get_oid(refs, name)} :
      \E c \in {get_commit(objects, AtomOf(oid.val))} :
        \E restored \in {IF oid.ok /\ c.ok
                         THEN read_tree(wd, objects, c.tree, read_ignore_file(wd))
                         ELSE [ok |-> FALSE, fs |-> wd]},
           u \in {update_ref(refs, HEAD, head_ref(refs, name, oid.val), FALSE)} :
          /\ ret.pc = "idle"
          /\ restored.ok /\ u.ok
          /\ wd' = restored.fs
          /\ ret' = [Begin("switch", name, HEAD, FALSE, u) EXCEPT
                         !.pc = "restored"]
          /\ UNCHANGED <<objects, refs>>

\* update_ref after the steps of commit and switch: the ref file is opened
\* and emptied.
StepRefOpen ==
    /\ ret.pc \in {"object_written", "restored"}
    /\ refs' = Put(refs, ret.reffile, Empty)
    /\ ret' = [ret EXCEPT !.pc = "opened"]
    /\ UNCHANGED <<objects, wd>>

\* reset: update_ref is its only call, the open its first step.
StepResetOpen(oid) ==
    \E u \in {reset(refs, oid)} :
      /\ ret.pc = "idle"
      /\ u.ok
      /\ refs' = Put(refs, HEAD, Empty)
      /\ ret' = [Begin("reset", oid, HEAD, FALSE, u) EXCEPT !.pc = "opened"]
      /\ UNCHANGED <<objects, wd>>

\* create_branch: the open of refs/heads/<name>.
StepBranchOpen(name, oid) ==
    \E u \in {create_branch(refs, name, oid)},
       f \in {ref_file(refs, RefsHeads \o name, TRUE)} :
      /\ ret.pc = "idle"
      /\ u.ok
      /\ refs' = Put(refs, f, Empty)
      /\ ret' = [Begin("branch", name, RefsHeads \o name, TRUE, u) EXCEPT
                     !.pc = "opened", !.val = oid]
      /\ UNCHANGED <<objects, wd>>

\* tag: get_oid, then the open of refs/tags/<tag>.
StepTagOpen(tag, tag_or_oid) ==
    \E oid \in {get_oid(refs, tag_or_oid)} :
      \E u \in {create_tag(refs, tag, oid.val)},
         f \in {ref_file(refs, RefsTags \o tag, TRUE)} :
        /\ ret.pc = "idle"
        /\ oid.ok /\ u.ok
        /\ refs' = Put(refs, f, Empty)
        /\ ret' = [Begin("tag", tag, RefsTags \o tag, TRUE, u) EXCEPT
                       !.pc = "opened", !.val = oid.val]
        /\ UNCHANGED <<objects, wd>>

\* write_all and flush of update_ref: the value is in the ref file, the
\* operation is complete.
StepRefWrite ==
    /\ ret.pc = "opened"
    /\ refs' = Put(refs, ret.reffile, ret.newrefs[ret.reffile])
    /\ ret' = [NoRet EXCEPT !.op = ret.op, !.data = ret.data, !.val = ret.val]
    /\ UNCHANGED <<objects, wd>>

\* The process stops where it is; what it wrote stays.
Stop ==
    /\ ret.pc \notin {"idle", "stopped"}
    /\ ret' = [ret EXCEPT !.pc = "stopped"]
    /\ UNCHANGED <<objects, refs, wd>>

\* The user edits the working directory while no operation runs.
IdleEdit ==
    /\ ret.pc = "idle"
    /\ \/ \E p \in RepoFiles : \E c \in ContentsAt(p) : EditWrite(p, c)
       \/ \E p \in RepoFiles : EditRemove(p)

NextCrash ==
    \/ IdleEdit
    \/ \E message \in Messages, ord \in ListOrders : StepCommitTree(message, ord)
    \/ StepCommitObject
    \/ \E name \in BranchNames \cup OidArgs : StepSwitchRestore(name)
    \/ StepRefOpen
    \/ \E oid \in OidArgs : StepResetOpen(oid)
    \/ \E name \in BranchNames, oid \in OidArgs : StepBranchOpen(name, oid)
    \/ \E tag \in TagNames, name \in OidArgs : StepTagOpen(tag, name)
    \/ StepRefWrite
    \/ Stop

SpecCrash == Init /\ [][NextCrash]_vars

----------------------------------------------------------------------------
(* switch with any name: the oid of any stored object, an oid of no object *)
(* and a name that resolves to nothing, in a directory whose file can hold *)
(* text that reads like the first lines of a commit.                       *)

SwitchContents == {<<"x">>, <<"tree", SP, "x", LF, "y">>}
AnyObjectArgs ==
    {<<o>> : o \in DOMAIN objects} \cup {<<MissingOid>>, <<NotHex>>}

NextSwitchAny ==
    \/ \E p \in RepoFiles, c \in SwitchContents : EditWrite(p, c)
    \/ \E p \in RepoFiles : EditRemove(p)
    \/ \E message \in Messages, ord \in ListOrders : CmdCommit(message, ord)
    \/ \E name \in AnyObjectArgs : CmdSwitch(name)

SpecSwitchAny == Init /\ [][NextSwitchAny]_vars

----------------------------------------------------------------------------
(* Commit::commit one hash_object call at a time: the blobs and trees of   *)
(* Tree::write_tree in the order the code writes them, the commit object,  *)
(* then the ref.  ret.val holds the calls still to make.                   *)

WriteFilePaths == {<<".", "a">>, <<".", "d", "a">>}
WriteDirPaths == {<<".", "d">>}

WritesEdit ==
    /\ ret.pc = "idle"
    /\ \/ \E p \in WriteFilePaths : EditWrite(p, <<"x">>)
       \/ \E p \in WriteDirPaths : EditMkdir(p)
       \/ \E p \in WriteFilePaths \cup WriteDirPaths : EditRemove(p)

\* The first hash_object call of Commit::commit.
BeginCommit(message, ord) ==
    \E t \in {TreeWrites(wd, Root, read_ignore_file(wd), ord)},
       head \in {HeadOfCommit(refs)} :
      \E pending \in {t.writes \o <<[data |-> commit_text(t.oid, head, message),
                                     kind |-> Commit]>>} :
        /\ ret.pc = "idle"
        /\ head.ok
        /\ Cardinality(CommitOids(objects)) < MaxCommits
        /\ objects' = hash_object(objects, pending[1].data, pending[1].kind).objs
        /\ ret' = [NoRet EXCEPT !.op = "commit", !.data = message,
                                !.pc = "writing", !.val = Tail(pending)]
        /\ UNCHANGED <<refs, wd>>

\* The next hash_object call.
StepHashObject ==
    /\ ret.pc = "writing"
    /\ ret.val # <<>>
    /\ \E c \in {hash_object(objects, ret.val[1].data, ret.val[1].kind)} :
         /\ objects' = c.objs
         /\ ret' = [ret EXCEPT !.val = Tail(ret.val), !.snapoid = c.oid]
    /\ UNCHANGED <<refs, wd>>

\* RefValue::update_ref("HEAD", commit oid, true), after the last write.
StepUpdateRef ==
    /\ ret.pc = "writing"
    /\ ret.val = <<>>
    /\ \E u \in {update_ref(refs, HEAD,
                            RefValue(<<ret.snapoid>>, FALSE, <<ret.snapoid>>),
                            TRUE)} :
         /\ refs' = u.rs
         /\ ret' = [NoRet EXCEPT !.op = "commit", !.data = ret.data,
                                 !.ok = u.ok, !.val = u.val]
    /\ UNCHANGED <<objects, wd>>

NextWrites ==
    \/ WritesEdit
    \/ \E message \in Messages, ord \in ListOrders : BeginCommit(message, ord)
    \/ StepHashObject
    \/ StepUpdateRef

SpecWrites == Init /\ [][NextWrites]_vars

----------------------------------------------------------------------------
(* The two ways of flattening a directory: Tree::new on the working        *)
(* directory, and Tree::get_tree on the tree object of a snapshot or of a  *)
(* commit.                                                                 *)

MaxFlatCommits == 1

FlatFilePaths == {<<".", "a">>, <<".", "e", "a">>}
FlatDirPaths == {<<".", "e">>}

\* Tree::new(target, ignore_options), as get_working_tree calls it.
NewTree(target, ign, ord) ==
    \E r \in {Tree_new(wd, objects, target, ign, ord)} :
       /\ IsDir(wd, target)
       /\ objects' = r.objs
       /\ ret' = [Carry(ret) EXCEPT !.op = "tree_new", !.ign = ign,
                                    !.target = target, !.val = r.entries]
       /\ UNCHANGED <<refs, wd>>

\* The user builds the directory before the first object is written.
FlatEdit ==
    /\ objects = <<>>
    /\ \/ \E p \in FlatFilePaths : \E c \in ContentsAt(p) : EditWrite(p, c)
       \/ \E p \in FlatDirPaths : EditMkdir(p)
       \/ \E p \in FlatFilePaths \cup FlatDirPaths : EditRemove(p)

NextFlat ==
    \/ FlatEdit
    \/ \E target \in {Root} \cup FlatDirPaths, ign \in IgnoreLists,
          ord \in ListOrders : WriteTree(target, ign, ord)
    \/ \E target \in {Root} \cup FlatDirPaths, ign \in IgnoreLists,
          ord \in ListOrders : NewTree(target, ign, ord)
    \/ /\ Cardinality(CommitOids(objects)) < MaxFlatCommits
       /\ \E message \in Messages, ord \in ListOrders : CmdCommit(message, ord)

SpecFlat == Init /\ [][NextFlat]_vars

----------------------------------------------------------------------------
(* The reference store on its own: refs written by reset, branch and tag   *)
(* with any oid, and names resolved by get_oid.                            *)

OtherOid == "00000000000000000000000000000000000000bb"

RefOids == {<<MissingOid>>, <<OtherOid>>}
RefBranchNames == {<<"b">>, <<"main">>}
RefTagNames == {<<"b">>, <<MissingOid>>}
RefNames ==
    RefBranchNames \cup RefOids
        \cup {HEAD, <<"heads", SLASH, "b">>, <<"tags", SLASH, "b">>,
              RefsHeads \o <<"b">>, <<ShortHex>>, <<NotHex>>}

CmdGetOid(name) ==
    \E r \in {get_oid(refs, name)} :
       /\ ret' = [NoRet EXCEPT !.op = "get_oid", !.data = name, !.ok = r.ok,
                               !.val = r.val]
       /\ UNCHANGED <<objects, refs, wd>>

GetRefNames == {HEAD, RefsHeads \o <<"main">>, RefsHeads \o <<"b">>,
                RefsTags \o <<"b">>}

\* RefValue::get_ref(name, deref) on its own; kind records Some or None.
CmdGetRef(name, deref) ==
    \E r \in {get_ref(refs, name, deref)} :
       /\ ret' = [NoRet EXCEPT !.op = "get_ref", !.data = name,
                               !.again = deref, !.ok = r.ok,
                               !.kind = IF r.some THEN "some" ELSE "none",
                               !.val = r.rv.value]
       /\ UNCHANGED <<objects, refs, wd>>

NextRefs ==
    \/ \E oid \in RefOids : CmdReset(oid)
    \/ \E name \in RefBranchNames, oid \in RefOids : CmdBranch(name, oid)
    \/ \E tag \in RefTagNames, oid \in RefOids : CmdTag(tag, oid)
    \/ \E name \in RefNames : CmdGetOid(name)
    \/ \E name \in GetRefNames, deref \in BOOLEAN : CmdGetRef(name, deref)

SpecRefs == Init /\ [][NextRefs]_vars

----------------------------------------------------------------------------
(* The diff engine on its own: diff_trees on any two trees over the paths  *)
(* and the blobs of the model, stored or not.                              *)

DiffPaths == {<<".", SLASH, "a">>, <<".", SLASH, "b">>}
DiffContents == {<<"x">>, <<"y">>}
DiffOids == {sha1_hash(<<Blob, NUL>> \o c) : c \in DiffContents}

\* Every order of the elements of a set.
Perms(S) ==
    {o \in [1..Cardinality(S) -> S] :
         \A i, j \in DOMAIN o : i # j => o[i] # o[j]}

\* The Tree of a map from paths to oids.
AsTree(f) ==
    LET o == CHOOSE o \in Perms(DOMAIN f) : TRUE
    IN [i \in 1..Len(o) |->
            [path |-> o[i], oid |-> f[o[i]], obj_type |-> Blob]]

DiffTreeSet ==
    {AsTree(f) : f \in UNION {[S -> DiffOids] : S \in SUBSET DiffPaths}}

InitDiff ==
    /\ objects = <<>>
    /\ refs = <<>>
    /\ wd = <<>>
    /\ ret = NoRet

DiffTrees(from, to, order) ==
    \E r \in {diff_trees(objects, from, to, order)} :
       /\ ret' = [NoRet EXCEPT !.op = "diff_trees", !.data = <<from, to>>,
                               !.ok = r.ok, !.val = r]
       /\ UNCHANGED <<objects, refs, wd>>

NextDiff ==
    \/ \E data \in DiffContents : HashObject(data, Blob)
    \/ \E from \in DiffTreeSet, to \in DiffTreeSet :
           \E order \in Perms(uniq_paths(convert_dict(from), convert_dict(to))) :
               DiffTrees(from, to, order)

SpecDiff == InitDiff /\ [][NextDiff]_vars

----------------------------------------------------------------------------
(* C1: for every kind k and content c, also a c that holds NUL or is       *)
(* empty, get_object(hash_object(c, k), k) returns exactly c.              *)
C1_RoundTrip ==
    ret.op = "hash_object" =>
        get_object(objects, ret.val[1], ret.kind) = Ok(ret.data)

(* C2: a second hash_object with the same (kind, content) returns the same *)
(* oid and leaves the set of stored oids and every stored content as the   *)
(* first call left them.                                                   *)
C2_Idempotent ==
    [][(ret'.op = "hash_object" /\ ret'.again) =>
           (ret'.val = ret.val /\ objects' = objects)]_vars

C2_Witness ==
    /\ ret.op = "hash_object"
    /\ ret.again
    /\ ret.val[1] \in DOMAIN objects

\* The directory below dir, by the paths relative to dir.
Rel(fs, dir) ==
    LET below == {q \in DOMAIN fs : IsPrefix(dir, q) /\ q # dir}
        rel(q) == SubSeq(q, Len(dir) + 1, Len(q))
    IN [r \in {rel(q) : q \in below} |-> fs[dir \o r]]

NoIgnoredPaths(fs, ign) ==
    \A p \in DOMAIN fs : ~is_ignored(PathStr(p), ign)

(* C3: for a working directory T with no ignored paths (nested and empty   *)
(* directories included), write_tree("."), then any change of the          *)
(* directory, then read_tree of that oid leaves exactly the paths of T     *)
(* with the content of T at each path.                                     *)
C3_SnapshotRestore ==
    [][(/\ ret'.op = "read_tree"
        /\ ret.snaptarget = Root
        /\ ret.snapign = ret'.ign
        /\ NoIgnoredPaths(ret.snap, ret'.ign)
        /\ NoIgnoredPaths(wd, ret'.ign))
       => (ret'.ok /\ wd' = ret.snap)]_vars

StoredContent(objs, oid) == SubSeq(objs[oid], 3, Len(objs[oid]))

\* The lines of a commit text before its first empty line.
HeaderLines(text) ==
    LET lines == Lines(text)
        blank == {i \in 1..Len(lines) : lines[i] = Empty}
        last == IF blank = {} THEN Len(lines)
                ELSE (CHOOSE i \in blank : \A j \in blank : i <= j) - 1
    IN SubSeq(lines, 1, last)

ParentLines(text) ==
    LET h == HeaderLines(text)
    IN {i \in 1..Len(h) : StartsWith(h[i], <<"parent">>)}

(* C5: the commit that Commit::commit stores has no parent line when HEAD, *)
(* dereferenced, resolves to no oid, and has exactly the parent line of p  *)
(* when HEAD dereferences to the oid p, after any sequence of commit,      *)
(* switch, reset, branch and tag.                                          *)
C5_ParentFromHead ==
    [][(ret'.op = "commit" /\ ret'.ok) =>
          LET head == FollowRef(refs, HEAD, TRUE, Cardinality(DOMAIN refs))
              text == StoredContent(objects', ret'.val[1])
          IN IF head.some
             THEN /\ ParentLines(text) = {2}
                  /\ HeaderLines(text)[2] = <<"parent", SP>> \o head.rv.value
             ELSE ParentLines(text) = {}]_vars

\* A commit made through a branch that HEAD names, with a parent.
C5_Witness ==
    /\ ret.op = "commit"
    /\ ret.ok
    /\ StartsWith(refs[HEAD], RefMark)
    /\ ParentLines(StoredContent(objects, ret.val[1])) = {2}

IsOidName(name) ==
    Len(name) = 1 /\ (name[1] \notin Atoms \/ name[1] = MissingOid)

(* C7: after switch(name) succeeds, HEAD is symbolic with the value        *)
(* refs/heads/<name> when refs/heads/<name> exists, and is direct with the *)
(* resolved oid otherwise; a raw oid of 40 hex digits leaves HEAD direct   *)
(* with that oid.                                                          *)
C7_HeadAfterSwitch ==
    [][(ret'.op = "switch" /\ ret'.ok) =>
          LET name == ret'.data
          IN /\ IF (RefsHeads \o name) \in DOMAIN refs
                THEN refs'[HEAD] = RefMark \o RefsHeads \o name
                ELSE /\ refs'[HEAD] = get_oid(refs, name).val
                     /\ ~StartsWith(refs'[HEAD], RefMark)
             /\ IsOidName(name) => refs'[HEAD] = name]_vars

\* A switch to the branch b that left HEAD symbolic.
C7_Witness ==
    /\ ret.op = "switch"
    /\ ret.ok
    /\ ret.data = <<"b">>
    /\ refs[HEAD] = RefMark \o RefsHeads \o <<"b">>

(* C8: after switch(name) succeeds, every (path, blob) of the flattened    *)
(* tree of the commit that name resolves to is in the working directory    *)
(* with the content of the blob, and no other file that is not ignored     *)
(* remains.                                                                *)
\* The flattened tree of the commit that name resolves to.
TreeOfName(objs, rs, name) ==
    LET oid == AtomOf(get_oid(rs, name).val)
        line0 == HeaderLines(StoredContent(objs, oid))[1]
        tree == AtomOf(Split(line0, SP)[2])
    IN get_tree(objs, StoredContent(objs, tree)).val

C8_SwitchRestoresTree ==
    [][(ret'.op = "switch" /\ ret'.ok) =>
          \A flat \in {TreeOfName(objects, refs, ret'.data)} :
             /\ \A i \in 1..Len(flat) :
                    /\ ParsePath(flat[i].path) \in DOMAIN wd'
                    /\ wd'[ParsePath(flat[i].path)] =
                           FileNode(StoredContent(objects, flat[i].oid))
             /\ \A p \in DOMAIN wd' :
                    (IsFile(wd', p)
                         /\ ~is_ignored(PathStr(p), read_ignore_file(wd')))
                        => \E i \in 1..Len(flat) : ParsePath(flat[i].path) = p]_vars

\* The ref file that the ref named c ends at, one symbolic ref followed.
RefTarget(rs, c) ==
    IF StartsWith(rs[c], RefMark) THEN SubSeq(rs[c], 3, Len(rs[c])) ELSE c

RefExists(rs, c) == c \in DOMAIN rs /\ RefTarget(rs, c) \in DOMAIN rs

(* C9: get_oid(name) returns the value of the first ref that exists among  *)
(* name, refs/<name>, refs/tags/<name>, refs/heads/<name>, in this order;  *)
(* when none exists it returns name if and only if name is exactly 40 hex  *)
(* digits, and fails otherwise.                                            *)
C9_GetOidOrder ==
    ret.op = "get_oid" =>
        LET name == ret.data
            cands == <<name, <<"refs", SLASH>> \o name,
                       <<"refs", SLASH, "tags", SLASH>> \o name,
                       <<"refs", SLASH, "heads", SLASH>> \o name>>
            hits == {i \in 1..4 : RefExists(refs, cands[i])}
            first == CHOOSE i \in hits : \A j \in hits : i <= j
        IN IF hits # {}
           THEN ret.ok /\ ret.val = refs[RefTarget(refs, cands[first])]
           ELSE IF name \in RefOids THEN ret.ok /\ ret.val = name
           ELSE ~ret.ok

\* get_oid of a name that a tag and a branch share, with different oids.
C9_Witness ==
    /\ ret.op = "get_oid"
    /\ ret.data = <<"b">>
    /\ (RefsTags \o <<"b">>) \in DOMAIN refs
    /\ (RefsHeads \o <<"b">>) \in DOMAIN refs
    /\ refs[RefsTags \o <<"b">>] # refs[RefsHeads \o <<"b">>]
    /\ ret.val = refs[RefsTags \o <<"b">>]

\* The paths of a tree, and the oid of a tree at a path.
PathsOf(tree) == {tree[i].path : i \in 1..Len(tree)}
OidAt(tree, p) == tree[CHOOSE i \in 1..Len(tree) : tree[i].path = p].oid

ParentOf(objs, oid) ==
    LET h == HeaderLines(StoredContent(objs, oid))
    IN IF Len(h) >= 2 /\ StartsWith(h[2], <<"parent", SP>>)
       THEN <<h[2][3]>> ELSE <<>>

(* C12: log started at a commit c that Commit::commit made emits c first,  *)
(* then each ancestor in parent order, every commit of the chain once, and *)
(* ends at the commit with no parent.                                      *)
C12_LogWalksChain ==
    (ret.op = "log" /\ AtomOf(ret.data) \in CommitOids(objects)) =>
        /\ ret.ok
        /\ Len(ret.val) >= 1
        /\ ret.val[1] = AtomOf(ret.data)
        /\ \A i \in 1..(Len(ret.val) - 1) :
               ParentOf(objects, ret.val[i]) = <<ret.val[i + 1]>>
        /\ ParentOf(objects, ret.val[Len(ret.val)]) = <<>>
        /\ \A i, j \in 1..Len(ret.val) : i # j => ret.val[i] # ret.val[j]

(* C20: in every state reachable by init, commit, switch, reset, branch    *)
(* and tag, with reset, branch and tag given any oid of 40 hex digits,     *)
(* every stored commit has no parent or has the oid of a stored commit as  *)
(* its parent.                                                             *)
C20_ParentsStored ==
    \A o \in CommitOids(objects) :
        \/ ParentOf(objects, o) = <<>>
        \/ ParentOf(objects, o)[1] \in CommitOids(objects)

\* Every ref but those of names holds in rs2 what it holds in rs1, and rs2
\* has no other ref.
SameRefsBut(rs1, rs2, names) ==
    /\ DOMAIN rs2 = DOMAIN rs1 \cup names
    /\ \A r \in DOMAIN rs1 \ names : rs2[r] = rs1[r]

(* C13: reset(oid) makes HEAD a direct ref with the value oid, whether     *)
(* HEAD was symbolic or direct before, and leaves the branch HEAD named,   *)
(* every other ref, the object store and the working directory as they     *)
(* were.                                                                   *)
C13_ResetFrame ==
    [][ret'.op = "reset" =>
          /\ ret'.ok
          /\ HEAD \in DOMAIN refs'
          /\ refs'[HEAD] = ret'.data
          /\ ~StartsWith(refs'[HEAD], RefMark)
          /\ SameRefsBut(refs, refs', {HEAD})
          /\ objects' = objects
          /\ wd' = wd]_vars

\* A reset that left HEAD at an oid other than the one the branch b holds.
C13_Witness ==
    /\ ret.op = "reset"
    /\ refs[HEAD] = ret.data
    /\ (RefsHeads \o <<"b">>) \in DOMAIN refs
    /\ refs[RefsHeads \o <<"b">>] # refs[HEAD]

(* C14: create_branch(name, oid) writes exactly refs/heads/<name> and      *)
(* create_tag(tag, oid) writes exactly refs/tags/<tag>, each as a direct   *)
(* ref holding oid; HEAD, every other ref, the object store and the        *)
(* working directory are unchanged.                                        *)
C14_BranchTagFrame ==
    [][(ret'.op \in {"branch", "tag"} /\ ret'.ok) =>
          LET written == IF ret'.op = "branch" THEN RefsHeads \o ret'.data
                         ELSE RefsTags \o ret'.data
          IN /\ written \in DOMAIN refs'
             /\ refs'[written] = ret'.val
             /\ ~StartsWith(refs'[written], RefMark)
             /\ SameRefsBut(refs, refs', {written})
             /\ objects' = objects
             /\ wd' = wd]_vars

\* A branch made at an oid that HEAD does not hold.
C14_Witness ==
    /\ ret.op = "branch"
    /\ ret.ok
    /\ refs[RefsHeads \o ret.data] = ret.val
    /\ refs[HEAD] # ret.val

\* The kind tag of a stored object: the bytes before its first NUL.
StoredKind(objs, oid) == Split(objs[oid], NUL)[1]

(* C15: get_object(oid, expected_kind) fails when the object stored at oid *)
(* has a kind tag other than expected_kind, and returns no content then;   *)
(* it fails too when no object is stored at oid.                           *)
C15_KindChecked ==
    ret.op = "get_object" =>
        LET oid == ret.data[1]
        IN (\/ oid \notin DOMAIN objects
            \/ StoredKind(objects, oid) # <<ret.kind>>) => ~ret.ok

(* C16: RefValue::get_ref(name, deref) returns Ok(None), not an error,     *)
(* when no ref is stored at name, and also when deref is true and a        *)
(* symbolic ref on the chain points at a name that is not stored (HEAD =   *)
(* ref:refs/heads/main before the first commit); the call changes no ref.  *)
C16_AbsentIsNone ==
    [][ret'.op = "get_ref" =>
          /\ refs' = refs
          /\ (\/ ret'.data \notin DOMAIN refs
              \/ ret'.again /\ RefTarget(refs, ret'.data) \notin DOMAIN refs)
                 => (ret'.ok /\ ret'.kind = "none")]_vars

\* get_ref("HEAD", true) while HEAD names a branch that has no ref file.
C16_Witness ==
    /\ ret.op = "get_ref"
    /\ ret.data = HEAD
    /\ ret.again
    /\ ret.ok
    /\ ret.kind = "none"
    /\ HEAD \in DOMAIN refs
    /\ StartsWith(refs[HEAD], RefMark)
    /\ RefTarget(refs, HEAD) \notin DOMAIN refs

(* C17: for the oid that Commit::commit(message) returns, get_commit(oid)  *)
(* returns the tree oid of the snapshot, the parent that HEAD dereferenced *)
(* to before the commit (None for the first commit) and the message given, *)
(* for every message: empty, of several lines, starting with parent.       *)
C17_CommitRoundTrip ==
    [][(ret'.op = "commit" /\ ret'.ok) =>
          \A head \in {FollowRef(refs, HEAD, TRUE, Cardinality(DOMAIN refs))},
             ord \in ListOrders :
            \A t \in {write_tree(wd, objects, Root, read_ignore_file(wd), ord)},
               c \in {get_commit(objects', AtomOf(ret'.val))} :
                /\ c.ok
                /\ c.tree = t.oid
                /\ c.has_parent = head.some
                /\ head.some => c.parent = head.rv.value
                /\ c.message = ret'.data]_vars

\* Where the process may have stopped: every object stored when the
\* operation began has its content, and every ref that existed then holds
\* its old value or the value the completed operation gives it.
CrashStateOk ==
    /\ \A oid \in DOMAIN ret.oldobjs :
           oid \in DOMAIN objects /\ objects[oid] = ret.oldobjs[oid]
    /\ \A r \in DOMAIN ret.oldrefs :
           /\ r \in DOMAIN refs
           /\ refs[r] \in {ret.oldrefs[r], ret.newrefs[r]}

\* Once an operation has touched a ref file it writes no object and no file
\* of the working directory.
RefWriteLast ==
    (refs' # refs \/ ret.pc = "opened") => (objects' = objects /\ wd' = wd)

(* C18: if the process stops between any two steps of commit, switch,      *)
(* reset or branch/tag creation, no stored object has changed content and  *)
(* every ref that existed before the operation holds its old value or the  *)
(* value the completed operation gives it; in each operation the ref write *)
(* is the last step, after all object and working-directory writes.        *)
C18_CrashSafe == []CrashStateOk /\ [][RefWriteLast]_vars

TreeOids(objs) == {o \in DOMAIN objs : objs[o][1] = Tree}
TreeLines(objs, oid) == Lines(StoredContent(objs, oid))

(* C21: every tree object written by Tree::write_tree lists its entries in *)
(* ascending path order, one entry per line as "kind oid path", whatever   *)
(* order the directory listing returned them in.                           *)
C21_TreeSorted ==
    \A t \in TreeOids(objects) :
        \A lines \in {TreeLines(objects, t)} :
            /\ \A i \in 1..Len(lines) :
                   /\ Len(lines[i]) >= 5
                   /\ lines[i][1] \in {Blob, Tree}
                   /\ lines[i][2] = SP
                   /\ lines[i][3] \in DOMAIN objects
                   /\ lines[i][4] = SP
            /\ \A i \in 1..(Len(lines) - 1) :
                   StrLess(SubSeq(lines[i], 5, Len(lines[i])),
                           SubSeq(lines[i + 1], 5, Len(lines[i + 1])))

\* A snapshot whose tree object has three entries, which a listing gives in
\* six orders.
C21_Witness ==
    /\ ret.op = "write_tree"
    /\ ret.val[1] \in TreeOids(objects)
    /\ Len(TreeLines(objects, ret.val[1])) = 3

(* C22: Tree::read_tree never removes or changes a path that the ignore    *)
(* predicate matches, at any depth of the working directory: every path    *)
(* that holds a reserved component or a pattern of the ignore list is the  *)
(* same after the restore as before, also an ignored file that lies in a   *)
(* directory that is not ignored.                                          *)
C22_IgnoredKept ==
    [][ret'.op = "read_tree" =>
          \A p \in DOMAIN wd :
              is_ignored(PathStr(p), ret'.ign) =>
                  (p \in DOMAIN wd' /\ wd'[p] = wd[p])]_vars

\* The bytes of a ref file are those of a symbolic ref.
IsSymbolic(value) == value # Empty /\ StartsWith(value, RefMark)

C24_HeadIsRestoredCommit ==
    [][(ret'.op = "switch" /\ ret'.ok) =>
          \A head \in {FollowRef(refs', HEAD, TRUE, Cardinality(DOMAIN refs'))},
             oid \in {get_oid(refs, ret'.data)} :
              /\ head.some
              /\ oid.ok
              /\ head.rv.value = oid.val]_vars

(* C25: the oid that HEAD dereferences to is the same before and after     *)
(* create_branch(name, oid) and create_tag(tag, oid), for every name, also *)
(* the name of the branch HEAD is attached to.                             *)
C25_HeadOidKept ==
    [][(ret'.op \in {"branch", "tag"} /\ ret'.ok) =>
          \A before \in {FollowRef(refs, HEAD, TRUE, Cardinality(DOMAIN refs))},
             after \in {FollowRef(refs', HEAD, TRUE, Cardinality(DOMAIN refs'))} :
              /\ after.some = before.some
              /\ after.rv.value = before.rv.value]_vars

C27_FailedSwitchNoChange ==
    [][ret'.op = "switch" =>
          \A oid \in {get_oid(refs, ret'.data)} :
              (~oid.ok \/ AtomOf(oid.val) \notin CommitOids(objects)) =>
                  /\ ~ret'.ok
                  /\ refs' = refs
                  /\ wd' = wd]_vars

(* C28: in every state reachable by init, commit, switch, reset,           *)
(* create_branch and create_tag, every direct ref (HEAD when detached,     *)
(* every branch, every tag) holds the oid of a stored commit object, so    *)
(* dereferencing HEAD and loading its commit never fails once a first      *)
(* commit exists.                                                          *)
C28_RefsNameCommits ==
    /\ \A r \in DOMAIN refs :
           ~IsSymbolic(refs[r]) => AtomOf(refs[r]) \in CommitOids(objects)
    /\ CommitOids(objects) # {} =>
           \A head \in {get_ref(refs, HEAD, TRUE)} :
               /\ head.some
               /\ get_commit(objects, AtomOf(head.rv.value)).ok

(* C29: in every reachable state, the states inside Tree::write_tree and   *)
(* Commit::commit included, every entry of a stored tree object names a    *)
(* stored object of the entry's kind and every stored commit's tree line   *)
(* names a stored tree object: children are written before the object     *)
(* that refers to them.                                                    *)
C29_StoreClosed ==
    /\ \A t \in TreeOids(objects) :
           \A lines \in {TreeLines(objects, t)} :
               \A i \in 1..Len(lines) :
                   \A entry \in {Entry_from(lines[i])} :
                       /\ entry.ok
                       /\ entry.val.oid \in DOMAIN objects
                       /\ objects[entry.val.oid][1] = entry.val.obj_type
    /\ \A c \in CommitOids(objects) :
           \A header \in {HeaderLines(StoredContent(objects, c))} :
               /\ Len(header) >= 1
               /\ Len(header[1]) = 3
               /\ header[1][1] = "tree"
               /\ header[1][2] = SP
               /\ header[1][3] \in TreeOids(objects)

\* Inside a commit: the tree of ./d is stored, the tree of "." that names
\* it is among the writes still to make.
C29_Witness ==
    /\ ret.pc = "writing"
    /\ Len(ret.val) >= 2
    /\ \E t \in TreeOids(objects) : Len(TreeLines(objects, t)) >= 1

\* The (path, oid) pairs of a sequence of entries.
PairsOf(entries) ==
    {<<entries[i].path, entries[i].oid>> : i \in 1..Len(entries)}

\* The flattened tree of the commit HEAD dereferences to.
HeadTree(objs, rs) ==
    LET head == FollowRef(rs, HEAD, TRUE, Cardinality(DOMAIN rs))
    IN TreeOfName(objs, rs, head.rv.value)

====
